---- MODULE Spec2Model ----
(***************************************************************************)
(* A model of the go-events Emitter (package events): On / Once register   *)
(* callbacks for a topic, Emit / EmitSync dispatch them.  The emitter has  *)
(* one mutex over the listeners map (Emitter.mu) and one mutex per topic   *)
(* (Handlers.mu).  A failure is a Go panic: it unwinds the goroutine's     *)
(* stack, running deferred calls, up to the first frame that recovers.     *)
(***************************************************************************)
EXTENDS Integers, Sequences, FiniteSets, Bags, TLC

\* ------------------------------------------------------------------ bounds
\* Number of func values handed to On/Once over a whole behaviour.
MaxHandlers == 2
\* Number of Emit/EmitSync calls over a whole behaviour.
MaxEmits == 2
\* The same two bounds for the behaviours of EmitSync alone.
SyncHandlers == 3
SyncEmits == 2
\* The same two bounds for the behaviours of callbacks that call the emitter.
ReentryHandlers == 2
ReentryEmits == 3
\* The same two bounds for the behaviours of two caller goroutines.
RaceHandlers == 2
RaceEmits == 2
\* Number of func values handed to On/Once by two goroutines that only register.
RegHandlers == 3
\* Number of On calls and of Emit calls on the emitter of src/events/emitter.go.
LegacyHandlers == 2
LegacyEmits == 2
\* ------------------------------------------------------------ input domains
Topics == {"ready", "named"}
Callers == {"t1", "t2"}
Workers == {"w1"}
Threads == Callers \cup Workers
NoOne == "none"
NoEntry == [in |-> <<"-">>, funcs |-> <<>>, exists |-> FALSE]

\* reflect.Type of a parameter or argument, and its reflect.Kind.
Types == {"string", "MyString", "uint64"}
Kind(ty) == IF ty = "MyString" THEN "string" ELSE ty

\* Parameter lists of the handlers a caller registers, and argument lists
\* of the values a caller emits.
SigSet == {<<>>, <<"string">>, <<"MyString">>, <<"uint64">>}
ArgSet == {<<>>, <<"string">>, <<"MyString">>, <<"uint64">>}

\* A handler value handed to On/Once: a func with parameter types `in`,
\* or a value of another kind.
HandlerValues(id) ==
    {[id |-> id, isFunc |-> TRUE, in |-> s] : s \in SigSet}
        \cup {[id |-> id, isFunc |-> FALSE, in |-> <<>>]}

VARIABLES
    listeners,  \* Emitter.listeners: topic -> Handlers (in, funcs) or NoEntry
    emu,        \* Emitter.mu: the goroutine that locked it, or NoOne
    hmu,        \* Handlers.mu per topic: the goroutine that locked it, or NoOne
    stack,      \* per goroutine: the frames of the calls in progress
    pend,       \* goroutines spawned by `go f.Call` and not yet started, per handler
    nextId,     \* identity of the next handler value registered
    ftype,      \* the parameter types of each registered func value (its reflect.Type)
    emits,      \* Emit/EmitSync calls made so far
    invoked,    \* history: how often each handler was invoked
    grabs,      \* history: how often grabFuncs returned each handler
    regOrder,   \* history: per topic, the handlers in the order they were appended
    onceIds,    \* history: the handlers registered by Once
    ev          \* history: the last step taken

vars == <<listeners, emu, hmu, stack, pend, nextId, ftype, emits, invoked, grabs, regOrder, onceIds, ev>>

\* --------------------------------------------------------------- frames
\* hfuncs is a []HandlerFunc read from handlers.funcs (addHandler's operand
\* of append, grabFuncs' operand); funcs is the []reflect.Value grabFuncs
\* returns.
AddFrame(doOnce, topic, h, local) ==
    [kind |-> "add", flag |-> doOnce, topic |-> topic, f |-> h, args |-> <<>>,
     pc |-> "append", hfuncs |-> local, funcs |-> <<>>, idx |-> 0, fired |-> <<>>]
CallFrame(doSync, topic, args) ==
    [kind |-> "call", flag |-> doSync, topic |-> topic, f |-> 0, args |-> args,
     pc |-> "lockH", hfuncs |-> <<>>, funcs |-> <<>>, idx |-> 0, fired |-> <<>>]
CbFrame(topic, id) ==
    [kind |-> "cb", flag |-> FALSE, topic |-> topic, f |-> id, args |-> <<>>,
     pc |-> "run", hfuncs |-> <<>>, funcs |-> <<>>, idx |-> 0, fired |-> <<>>]

Top(t) == stack[t][Len(stack[t])]
Count(s, x) == Cardinality({i \in 1..Len(s) : s[i] = x})
Pop(s) == SubSeq(s, 1, Len(s) - 1)
CbCount(s) == Cardinality({i \in 1..Len(s) : s[i].kind = "cb"})

\* A panic unwinds the stack `s` of the frames below the panicking one.  None
\* of Emitter's frames recovers; a callback (user code) may, and then goes
\* on running; with no recovering callback the goroutine's caller recovers
\* (a caller goroutine) or the goroutine ends (a spawned one).
RecoverPoints(s) == {0} \cup {i \in 1..Len(s) : s[i].kind = "cb"}
Unwind(s, k) == SubSeq(s, 1, k)

\* A goroutine may call the emitter when it is at top level (a caller) or
\* inside a callback.
CanCall(t) ==
    \/ t \in Callers /\ stack[t] = <<>>
    \/ /\ stack[t] # <<>>
       /\ Top(t).kind = "cb"

\* ---------------------------------------------------------- pure functions
\* addHandler's checks: the handler's kind, then (for an existing topic) its
\* parameter count and the kind of each parameter.
AddHandlerError(ls, topic, h) ==
    IF ~h.isFunc THEN "kind"
    ELSE IF ~ls[topic].exists THEN "ok"
    ELSE IF Len(h.in) # Len(ls[topic].in) THEN "count"
    ELSE IF \E i \in 1..Len(h.in) : Kind(h.in[i]) # Kind(ls[topic].in[i]) THEN "type"
    ELSE "ok"

\* The listeners map once addHandler's checks have passed: a new topic gets
\* its entry, with the handler's parameter types and no funcs yet.
WithEntry(ls, topic, h) ==
    IF ls[topic].exists THEN ls
    ELSE [ls EXCEPT ![topic] = [in |-> h.in, funcs |-> <<>>, exists |-> TRUE]]

\* callHandlers' checks of args against the topic's parameter types.
ArgsError(in, args) ==
    IF Len(args) # Len(in) THEN "count"
    ELSE IF \E i \in 1..Len(args) : Kind(args[i]) # Kind(in[i]) THEN "type"
    ELSE "ok"

\* grabFuncs: the callbacks to fire (funcs), and the entries that stay in
\* h.funcs (notRemoved).
IsNotOnce(e) == ~e.once
grabFuncs(hfuncs) ==
    [funcs |-> [i \in 1..Len(hfuncs) |-> hfuncs[i].f],
     notRemoved |-> SelectSeq(hfuncs, IsNotOnce)]

\* reflect.Value.Call panics unless each argument's type is the parameter's.
CallAccepts(in, args) ==
    /\ Len(in) = Len(args)
    /\ \A i \in 1..Len(in) : in[i] = args[i]

Event(op, t, topic, f) == [op |-> op, t |-> t, topic |-> topic, f |-> f]

\* ------------------------------------------------------------------- Init
Init ==
    /\ listeners = [tp \in Topics |-> NoEntry]
    /\ emu = NoOne
    /\ hmu = [tp \in Topics |-> NoOne]
    /\ stack = [t \in Threads |-> <<>>]
    /\ pend = EmptyBag
    /\ nextId = 1
    /\ ftype = <<>>
    /\ emits = 0
    /\ invoked = <<>>
    /\ grabs = <<>>
    /\ regOrder = [tp \in Topics |-> <<>>]
    /\ onceIds = {}
    /\ ev = Event("init", NoOne, "-", 0)

\* ---------------------------------------------------------- registration
\* addHandler without `defer`: a panic leaves e.mu locked.
EmuAfterAddPanicNoDefer(t) == t

\* The map lock after addHandler panics: the deferred Unlock has run.
EmuAfterAddPanic(t) == NoOne

\* On / Once -> addHandler, lines 89-129 and the read of handlers.funcs in
\* line 132.  A failed check panics; the deferred e.mu.Unlock() runs.
addHandlerPanic(t, doOnce, topic, h) ==
    /\ CanCall(t)
    /\ emu = NoOne
    /\ AddHandlerError(listeners, topic, h) # "ok"
    /\ emu' = EmuAfterAddPanic(t)
    /\ \E k \in RecoverPoints(stack[t]) :
          stack' = [stack EXCEPT ![t] = Unwind(stack[t], k)]
    /\ ev' = Event("addPanic", t, topic, h.id)
    /\ UNCHANGED <<listeners, hmu, pend, nextId, ftype, emits, invoked, grabs, regOrder, onceIds>>

\* addHandler without e.mu.Lock().
addHandlerNoMutex(t, doOnce, topic, h) ==
    /\ CanCall(t)
    /\ AddHandlerError(listeners, topic, h) = "ok"
    /\ emu' = t
    /\ listeners' = WithEntry(listeners, topic, h)
    /\ stack' = [stack EXCEPT ![t] =
                    Append(@, AddFrame(doOnce, topic, h.id, listeners'[topic].funcs))]
    /\ nextId' = nextId + 1
    /\ ftype' = Append(ftype, h.in)
    /\ invoked' = Append(invoked, 0)
    /\ grabs' = Append(grabs, 0)
    /\ ev' = Event("addBegin", t, topic, h.id)
    /\ UNCHANGED <<hmu, pend, emits, regOrder, onceIds>>

addHandler(t, doOnce, topic, h) ==
    /\ CanCall(t)
    /\ emu = NoOne
    /\ AddHandlerError(listeners, topic, h) = "ok"
    /\ emu' = t
    /\ listeners' = WithEntry(listeners, topic, h)
    /\ stack' = [stack EXCEPT ![t] =
                    Append(@, AddFrame(doOnce, topic, h.id, listeners'[topic].funcs))]
    /\ nextId' = nextId + 1
    /\ ftype' = Append(ftype, h.in)
    /\ invoked' = Append(invoked, 0)
    /\ grabs' = Append(grabs, 0)
    /\ ev' = Event("addBegin", t, topic, h.id)
    /\ UNCHANGED <<hmu, pend, emits, regOrder, onceIds>>

\* What addHandler stores in handlers.funcs in lines 132-135: the slice it
\* read, with the new entry appended.
Appended(fr) == Append(fr.hfuncs, [once |-> fr.flag, f |-> fr.f])

\* addHandler, lines 132-136: the store to handlers.funcs, and the deferred unlock.
addHandlerAppend(t) ==
    /\ stack[t] # <<>>
    /\ Top(t).kind = "add"
    /\ LET fr == Top(t) IN
        /\ listeners' = [listeners EXCEPT ![fr.topic].funcs = Appended(fr)]
        /\ regOrder' = [regOrder EXCEPT ![fr.topic] = Append(@, fr.f)]
        /\ onceIds' = IF fr.flag THEN onceIds \cup {fr.f} ELSE onceIds
        /\ ev' = Event("addDone", t, fr.topic, fr.f)
    /\ emu' = NoOne
    /\ stack' = [stack EXCEPT ![t] = Pop(@)]
    /\ UNCHANGED <<hmu, pend, nextId, ftype, emits, invoked, grabs>>

\* --------------------------------------------------------------- dispatch
\* callHandlers returning in line 144 without the Unlock of line 143.
EmuAfterNoListenersNoUnlock(t) == t

\* The map lock after callHandlers found no entry for the topic.
EmuAfterNoListeners(t) == NoOne

\* Emit / EmitSync -> callHandlers, lines 139-145: the topic has no entry.
callHandlersNoListeners(t, doSync, topic, args) ==
    /\ CanCall(t)
    /\ emu = NoOne
    /\ ~listeners[topic].exists
    /\ emu' = EmuAfterNoListeners(t)
    /\ emits' = emits + 1
    /\ ev' = Event("noListeners", t, topic, 0)
    /\ UNCHANGED <<listeners, hmu, stack, pend, nextId, ftype, invoked, grabs, regOrder, onceIds>>

\* callHandlers, lines 139-147: the topic has an entry; e.mu is released.
callHandlers(t, doSync, topic, args) ==
    /\ CanCall(t)
    /\ emu = NoOne
    /\ listeners[topic].exists
    /\ stack' = [stack EXCEPT ![t] = Append(@, CallFrame(doSync, topic, args))]
    /\ emits' = emits + 1
    /\ ev' = Event("emitBegin", t, topic, 0)
    /\ UNCHANGED <<listeners, emu, hmu, pend, nextId, ftype, invoked, grabs, regOrder, onceIds>>

AtCall(t, pc) ==
    /\ stack[t] # <<>>
    /\ Top(t).kind = "call"
    /\ Top(t).pc = pc

\* The topic's lock after callHandlers panics in lines 156-164: no Unlock runs.
HmuAfterArgsPanic(t) == t

\* callHandlers checking args only after grabFuncs has run.
callHandlersPanicAfterGrab(t) ==
    /\ AtCall(t, "lockH")
    /\ LET fr == Top(t) IN
        /\ hmu[fr.topic] = NoOne
        /\ ArgsError(listeners[fr.topic].in, fr.args) # "ok"
        /\ hmu' = [hmu EXCEPT ![fr.topic] = t]
        /\ listeners' = [listeners EXCEPT
                            ![fr.topic].funcs = grabFuncs(@).notRemoved]
        /\ \E k \in RecoverPoints(Pop(stack[t])) :
              stack' = [stack EXCEPT ![t] = Unwind(Pop(stack[t]), k)]
        /\ ev' = Event("emitPanic", t, fr.topic, 0)
    /\ UNCHANGED <<emu, pend, nextId, ftype, emits, invoked, grabs, regOrder, onceIds>>

\* callHandlers, lines 148-164: handlers.mu.Lock(), then a check of args fails.
callHandlersPanic(t) ==
    /\ AtCall(t, "lockH")
    /\ LET fr == Top(t) IN
        /\ hmu[fr.topic] = NoOne
        /\ ArgsError(listeners[fr.topic].in, fr.args) # "ok"
        /\ hmu' = [hmu EXCEPT ![fr.topic] = HmuAfterArgsPanic(t)]
        /\ \E k \in RecoverPoints(Pop(stack[t])) :
              stack' = [stack EXCEPT ![t] = Unwind(Pop(stack[t]), k)]
        /\ ev' = Event("emitPanic", t, fr.topic, 0)
    /\ UNCHANGED <<listeners, emu, pend, nextId, ftype, emits, invoked, grabs, regOrder, onceIds>>

\* callHandlers without handlers.mu.Lock().
callHandlersLockNoMutex(t) ==
    /\ AtCall(t, "lockH")
    /\ LET fr == Top(t) IN
        /\ ArgsError(listeners[fr.topic].in, fr.args) = "ok"
        /\ hmu' = [hmu EXCEPT ![fr.topic] = t]
        /\ stack' = [stack EXCEPT ![t][Len(stack[t])] =
                        [fr EXCEPT !.pc = "grabbed", !.hfuncs = listeners[fr.topic].funcs]]
        /\ ev' = Event("emitLocked", t, fr.topic, 0)
    /\ UNCHANGED <<listeners, emu, pend, nextId, ftype, emits, invoked, grabs, regOrder, onceIds>>

\* callHandlers, lines 148-167, and grabFuncs' reads of h.funcs (lines 185-195).
callHandlersLock(t) ==
    /\ AtCall(t, "lockH")
    /\ LET fr == Top(t) IN
        /\ hmu[fr.topic] = NoOne
        /\ ArgsError(listeners[fr.topic].in, fr.args) = "ok"
        /\ hmu' = [hmu EXCEPT ![fr.topic] = t]
        /\ stack' = [stack EXCEPT ![t][Len(stack[t])] =
                        [fr EXCEPT !.pc = "grabbed", !.hfuncs = listeners[fr.topic].funcs]]
        /\ ev' = Event("emitLocked", t, fr.topic, 0)
    /\ UNCHANGED <<listeners, emu, pend, nextId, ftype, emits, invoked, grabs, regOrder, onceIds>>

\* grabFuncs deleting the topic's entry when no handler stays.
callHandlersGrabDropsEmptied(t) ==
    /\ AtCall(t, "grabbed")
    /\ LET fr == Top(t)
           g == grabFuncs(fr.hfuncs) IN
        /\ listeners' = [listeners EXCEPT ![fr.topic] =
                            IF g.notRemoved = <<>> THEN NoEntry
                            ELSE [@ EXCEPT !.funcs = g.notRemoved]]
        /\ hmu' = [hmu EXCEPT ![fr.topic] = NoOne]
        /\ stack' = [stack EXCEPT ![t][Len(stack[t])] =
                        [fr EXCEPT !.pc = "fire", !.hfuncs = <<>>, !.funcs = g.funcs, !.idx = 1]]
        /\ grabs' = [i \in 1..Len(grabs) |-> grabs[i] + Count(g.funcs, i)]
        /\ ev' = Event("grab", t, fr.topic, 0)
    /\ UNCHANGED <<emu, pend, nextId, ftype, emits, invoked, regOrder, onceIds>>

\* grabFuncs' store to h.funcs (line 197) and handlers.mu.Unlock() (line 174).
callHandlersGrab(t) ==
    /\ AtCall(t, "grabbed")
    /\ LET fr == Top(t)
           g == grabFuncs(fr.hfuncs) IN
        /\ listeners' = [listeners EXCEPT ![fr.topic].funcs = g.notRemoved]
        /\ hmu' = [hmu EXCEPT ![fr.topic] = NoOne]
        /\ stack' = [stack EXCEPT ![t][Len(stack[t])] =
                        [fr EXCEPT !.pc = "fire", !.hfuncs = <<>>, !.funcs = g.funcs, !.idx = 1]]
        /\ grabs' = [i \in 1..Len(grabs) |-> grabs[i] + Count(g.funcs, i)]
        /\ ev' = Event("grab", t, fr.topic, 0)
    /\ UNCHANGED <<emu, pend, nextId, ftype, emits, invoked, regOrder, onceIds>>

\* grabFuncs racing with addHandler's append (which holds e.mu, not
\* handlers.mu): funcs was made with the length read first (line 185); when
\* the loop's len(h.funcs) (line 188) sees the longer slice, funcs[i] is out
\* of range and grabFuncs panics, with handlers.mu locked.
grabFuncsPanic(t) ==
    /\ AtCall(t, "grabbed")
    /\ LET fr == Top(t) IN
        /\ Len(listeners[fr.topic].funcs) > Len(fr.hfuncs)
        /\ \E k \in RecoverPoints(Pop(stack[t])) :
              stack' = [stack EXCEPT ![t] = Unwind(Pop(stack[t]), k)]
        /\ ev' = Event("grabPanic", t, fr.topic, 0)
    /\ UNCHANGED <<listeners, emu, hmu, pend, nextId, ftype, emits, invoked, grabs, regOrder, onceIds>>

\* callFuncsSync ranging over funcs from its end.
SyncIndexReversed(funcs, i) == Len(funcs) + 1 - i

\* The index of funcs that callFuncsSync calls in its i-th iteration.
SyncIndex(funcs, i) == i

\* callFuncsSync, one iteration: f.Call(inArgs) enters the callback.
callFuncsSync(t) ==
    /\ AtCall(t, "fire")
    /\ LET fr == Top(t) IN
        /\ fr.flag
        /\ fr.idx <= Len(fr.funcs)
        /\ LET id == fr.funcs[SyncIndex(fr.funcs, fr.idx)] IN
            /\ CallAccepts(ftype[id], fr.args)
            /\ stack' = [stack EXCEPT ![t] =
                  Append(Pop(@), [fr EXCEPT !.idx = @ + 1, !.fired = Append(@, id)])
                      \o <<CbFrame(fr.topic, id)>>]
            /\ invoked' = [invoked EXCEPT ![id] = @ + 1]
            /\ ev' = Event("invoke", t, fr.topic, id)
    /\ UNCHANGED <<listeners, emu, hmu, pend, nextId, ftype, emits, grabs, regOrder, onceIds>>

\* callFuncsSync, one iteration: f.Call(inArgs) panics on an argument whose
\* type is not the parameter's; the batch ends.
callFuncsSyncPanic(t) ==
    /\ AtCall(t, "fire")
    /\ LET fr == Top(t) IN
        /\ fr.flag
        /\ fr.idx <= Len(fr.funcs)
        /\ ~CallAccepts(ftype[fr.funcs[SyncIndex(fr.funcs, fr.idx)]], fr.args)
        /\ \E k \in RecoverPoints(Pop(stack[t])) :
              stack' = [stack EXCEPT ![t] = Unwind(Pop(stack[t]), k)]
        /\ ev' = Event("callPanic", t, fr.topic, fr.funcs[fr.idx])
    /\ UNCHANGED <<listeners, emu, hmu, pend, nextId, ftype, emits, invoked, grabs, regOrder, onceIds>>

\* callFuncsSync returning before it has ranged over all of funcs.
callFuncsSyncReturnEarly(t) ==
    /\ AtCall(t, "fire")
    /\ Top(t).flag
    /\ stack' = [stack EXCEPT ![t] = Pop(@)]
    /\ ev' = Event("emitSyncDone", t, Top(t).topic, 0)
    /\ UNCHANGED <<listeners, emu, hmu, pend, nextId, ftype, emits, invoked, grabs, regOrder, onceIds>>

\* callFuncsSync has called every func: EmitSync returns.
callFuncsSyncReturn(t) ==
    /\ AtCall(t, "fire")
    /\ Top(t).flag
    /\ Top(t).idx > Len(Top(t).funcs)
    /\ stack' = [stack EXCEPT ![t] = Pop(@)]
    /\ ev' = Event("emitSyncDone", t, Top(t).topic, 0)
    /\ UNCHANGED <<listeners, emu, hmu, pend, nextId, ftype, emits, invoked, grabs, regOrder, onceIds>>

\* The goroutines callFuncsAsync spawns: one per element of funcs.
RECURSIVE SpawnBag(_, _, _)
SpawnBag(funcs, topic, args) ==
    IF funcs = <<>> THEN EmptyBag
    ELSE SetToBag({[f |-> Head(funcs), topic |-> topic, args |-> args]})
            (+) SpawnBag(Tail(funcs), topic, args)
Spawned(fr) == SpawnBag(fr.funcs, fr.topic, fr.args)
ListIds(hfuncs) == [i \in 1..Len(hfuncs) |-> hfuncs[i].f]
InFuncs(id, funcs) == \E i \in 1..Len(funcs) : funcs[i] = id

\* callFuncsAsync joining the goroutines it has spawned (a WaitGroup) before
\* Emit returns.
callFuncsAsyncJoin(t) ==
    /\ LET fr == Top(t) IN
        \/ /\ AtCall(t, "fire")
           /\ ~fr.flag
           /\ pend' = pend (+) Spawned(fr)
           /\ stack' = [stack EXCEPT ![t][Len(stack[t])] = [fr EXCEPT !.pc = "join"]]
           /\ ev' = Event("spawned", t, fr.topic, 0)
        \/ /\ AtCall(t, "join")
           /\ \A g \in BagToSet(pend) : ~InFuncs(g.f, fr.funcs)
           /\ \A w \in Workers : \A i \in 1..Len(stack[w]) : ~InFuncs(stack[w][i].f, fr.funcs)
           /\ pend' = pend
           /\ stack' = [stack EXCEPT ![t] = Pop(@)]
           /\ ev' = Event("emitDone", t, fr.topic, 0)
    /\ UNCHANGED <<listeners, emu, hmu, nextId, ftype, emits, invoked, grabs, regOrder, onceIds>>

\* callFuncsAsync: one `go f.Call(inArgs)` per func; Emit returns.
callFuncsAsync(t) ==
    /\ AtCall(t, "fire")
    /\ LET fr == Top(t) IN
        /\ ~fr.flag
        /\ pend' = pend (+) Spawned(fr)
        /\ ev' = Event("emitDone", t, fr.topic, 0)
    /\ stack' = [stack EXCEPT ![t] = Pop(@)]
    /\ UNCHANGED <<listeners, emu, hmu, nextId, ftype, emits, invoked, grabs, regOrder, onceIds>>

\* A spawned goroutine starts: f.Call(inArgs) enters the callback, or panics
\* on an argument whose type is not the parameter's.
goCall(w, g) ==
    /\ stack[w] = <<>>
    /\ BagIn(g, pend)
    /\ pend' = pend (-) SetToBag({g})
    /\ IF CallAccepts(ftype[g.f], g.args)
       THEN /\ stack' = [stack EXCEPT ![w] = <<CbFrame(g.topic, g.f)>>]
            /\ invoked' = [invoked EXCEPT ![g.f] = @ + 1]
            /\ ev' = Event("invoke", w, g.topic, g.f)
       ELSE /\ UNCHANGED <<stack, invoked>>
            /\ ev' = Event("callPanic", w, g.topic, g.f)
    /\ UNCHANGED <<listeners, emu, hmu, nextId, ftype, emits, grabs, regOrder, onceIds>>

\* -------------------------------------------------------------- callbacks
\* The callback returns.
handlerReturn(t) ==
    /\ stack[t] # <<>>
    /\ Top(t).kind = "cb"
    /\ stack' = [stack EXCEPT ![t] = Pop(@)]
    /\ ev' = Event("handlerReturn", t, Top(t).topic, Top(t).f)
    /\ UNCHANGED <<listeners, emu, hmu, pend, nextId, ftype, emits, invoked, grabs, regOrder, onceIds>>

\* A callback's panic recovered by callFuncsSync, which goes on with the
\* next func.
handlerPanicSwallowed(t) ==
    /\ stack[t] # <<>>
    /\ Top(t).kind = "cb"
    /\ stack' = [stack EXCEPT ![t] = Pop(@)]
    /\ ev' = Event("handlerPanic", t, Top(t).topic, Top(t).f)
    /\ UNCHANGED <<listeners, emu, hmu, pend, nextId, ftype, emits, invoked, grabs, regOrder, onceIds>>

\* The callback panics.
handlerPanic(t) ==
    /\ stack[t] # <<>>
    /\ Top(t).kind = "cb"
    /\ \E k \in RecoverPoints(Pop(stack[t])) :
          stack' = [stack EXCEPT ![t] = Unwind(Pop(stack[t]), k)]
    /\ ev' = Event("handlerPanic", t, Top(t).topic, Top(t).f)
    /\ UNCHANGED <<listeners, emu, hmu, pend, nextId, ftype, emits, invoked, grabs, regOrder, onceIds>>

\* ------------------------------------- the emitter of src/events/emitter.go
\* This Emitter has On and Emit only, one mutex, and each method holds it
\* from its first statement to its return (Lock, defer Unlock), so each
\* call is one step.  Its handler entries are the func values themselves.

\* On, lines 36-72: a failed check panics; the deferred Unlock runs.
OnPanic(t, topic, h) ==
    /\ CanCall(t)
    /\ emu = NoOne
    /\ AddHandlerError(listeners, topic, h) # "ok"
    /\ \E k \in RecoverPoints(stack[t]) :
          stack' = [stack EXCEPT ![t] = Unwind(stack[t], k)]
    /\ ev' = Event("OnPanic", t, topic, h.id)
    /\ UNCHANGED <<listeners, emu, hmu, pend, nextId, ftype, emits, invoked, grabs, regOrder, onceIds>>

\* On, lines 36-76: the first handler of a topic creates its entry; append.
On(t, topic, h) ==
    /\ CanCall(t)
    /\ emu = NoOne
    /\ AddHandlerError(listeners, topic, h) = "ok"
    /\ listeners' = [WithEntry(listeners, topic, h) EXCEPT
                        ![topic].funcs = Append(@, [once |-> FALSE, f |-> h.id])]
    /\ nextId' = nextId + 1
    /\ ftype' = Append(ftype, h.in)
    /\ invoked' = Append(invoked, 0)
    /\ grabs' = Append(grabs, 0)
    /\ regOrder' = [regOrder EXCEPT ![topic] = Append(@, h.id)]
    /\ ev' = Event("On", t, topic, h.id)
    /\ UNCHANGED <<emu, hmu, stack, pend, emits, onceIds>>

\* Emit's checks, lines 83-101: the topic must have an entry, and args must
\* match its parameter types in count and kind.
EmitError(ls, topic, args) ==
    IF ~ls[topic].exists THEN "nolisteners" ELSE ArgsError(ls[topic].in, args)

\* Emit, lines 79-101: a failed check panics; the deferred Unlock runs.
EmitPanic(t, topic, args) ==
    /\ CanCall(t)
    /\ emu = NoOne
    /\ EmitError(listeners, topic, args) # "ok"
    /\ \E k \in RecoverPoints(stack[t]) :
          stack' = [stack EXCEPT ![t] = Unwind(stack[t], k)]
    /\ emits' = emits + 1
    /\ ev' = Event("EmitPanic", t, topic, 0)
    /\ UNCHANGED <<listeners, emu, hmu, pend, nextId, ftype, invoked, grabs, regOrder, onceIds>>

\* Emit, lines 79-110: one `go fn.Call(inArgs)` per handler of the topic.
Emit(t, topic, args) ==
    /\ CanCall(t)
    /\ emu = NoOne
    /\ EmitError(listeners, topic, args) = "ok"
    /\ pend' = pend (+) SpawnBag(ListIds(listeners[topic].funcs), topic, args)
    /\ emits' = emits + 1
    /\ ev' = Event("Emit", t, topic, 0)
    /\ UNCHANGED <<listeners, emu, hmu, stack, nextId, ftype, invoked, grabs, regOrder, onceIds>>

\* ------------------------------------------------------------------- Next
\* The func values a caller may still hand to On/Once, and the argument
\* lists it may still emit, within the bounds: maxH func values, maxE
\* dispatches over a behaviour.
NewHandlers(maxH) == IF nextId <= maxH THEN HandlerValues(nextId) ELSE {}
NewArgs(maxE) == IF emits < maxE THEN ArgSet ELSE {}

\* The calls and steps of the goroutines T over the topics TS.
Registrations(T, TS, maxH) ==
    \/ \E t \in T, doOnce \in BOOLEAN, topic \in TS, h \in NewHandlers(maxH) :
          addHandler(t, doOnce, topic, h)
    \/ \E t \in T, doOnce \in BOOLEAN, topic \in TS, h \in NewHandlers(maxH) :
          addHandlerPanic(t, doOnce, topic, h)
    \/ \E t \in T : addHandlerAppend(t)

Dispatches(T, TS, Modes, maxE) ==
    \E t \in T, doSync \in Modes, topic \in TS, args \in NewArgs(maxE) :
          callHandlers(t, doSync, topic, args)

NoListeners(T, TS, Modes, maxE) ==
    \E t \in T, doSync \in Modes, topic \in TS, args \in NewArgs(maxE) :
          callHandlersNoListeners(t, doSync, topic, args)

Calls(T, TS, Modes, maxH, maxE) ==
    \/ Registrations(T, TS, maxH)
    \/ Dispatches(T, TS, Modes, maxE)
    \/ NoListeners(T, TS, Modes, maxE)

Steps(T) ==
    \/ \E t \in T : callHandlersLock(t)
    \/ \E t \in T : callHandlersPanic(t)
    \/ \E t \in T : callHandlersGrab(t)

StepsSync(T) ==
    \/ \E t \in T : callFuncsSync(t)
    \/ \E t \in T : callFuncsSyncPanic(t)
    \/ \E t \in T : callFuncsSyncReturn(t)

StepsAsync(T, W) ==
    \/ \E t \in T : callFuncsAsync(t)
    \/ \E w \in W, g \in BagToSet(pend) : goCall(w, g)

Handlers(T) ==
    \/ \E t \in T : handlerReturn(t)
    \/ \E t \in T : handlerPanic(t)

\* One caller goroutine and the goroutines Emit spawns, one running at a
\* time; every callback may call the emitter again; two topics.
Next ==
    \/ Calls({"t1", "w1"}, Topics, BOOLEAN, MaxHandlers, MaxEmits)
    \/ Steps({"t1", "w1"})
    \/ StepsSync({"t1", "w1"})
    \/ StepsAsync({"t1", "w1"}, {"w1"})
    \/ Handlers({"t1", "w1"})

Spec == Init /\ [][Next]_vars

\* One caller goroutine and the goroutines Emit spawns; the caller's
\* callbacks may call the emitter again; one topic.
NextSeq ==
    \/ Calls({"t1"}, {"ready"}, BOOLEAN, MaxHandlers, MaxEmits)
    \/ Steps({"t1"})
    \/ StepsSync({"t1"})
    \/ StepsAsync({"t1"}, {"w1"})
    \/ Handlers({"t1", "w1"})

SpecSeq == Init /\ [][NextSeq]_vars

\* One caller goroutine that calls On, Once and EmitSync, from top level and
\* from its callbacks; one topic.
NextSync ==
    \/ Calls({"t1"}, {"ready"}, {TRUE}, SyncHandlers, SyncEmits)
    \/ Steps({"t1"})
    \/ StepsSync({"t1"})
    \/ Handlers({"t1"})

SpecSync == Init /\ [][NextSync]_vars

\* One caller goroutine that calls On, Once and EmitSync, from top level and
\* from its callbacks; two topics.
NextReentry ==
    \/ Calls({"t1"}, Topics, {TRUE}, ReentryHandlers, ReentryEmits)
    \/ Steps({"t1"})
    \/ StepsSync({"t1"})
    \/ Handlers({"t1"})

SpecReentry == Init /\ [][NextReentry]_vars

\* A topic with RaceHandlers handlers, as sequential calls of On and Once
\* with func(string) values leave it.
InitLoaded ==
    /\ \E flags \in [1..RaceHandlers -> BOOLEAN] :
          /\ listeners = [tp \in Topics |->
                IF tp = "ready"
                THEN [in |-> <<"string">>,
                      funcs |-> [i \in 1..RaceHandlers |-> [once |-> flags[i], f |-> i]],
                      exists |-> TRUE]
                ELSE NoEntry]
          /\ onceIds = {i \in 1..RaceHandlers : flags[i]}
    /\ emu = NoOne
    /\ hmu = [tp \in Topics |-> NoOne]
    /\ stack = [t \in Threads |-> <<>>]
    /\ pend = EmptyBag
    /\ nextId = RaceHandlers + 1
    /\ ftype = [i \in 1..RaceHandlers |-> <<"string">>]
    /\ emits = 0
    /\ invoked = [i \in 1..RaceHandlers |-> 0]
    /\ grabs = [i \in 1..RaceHandlers |-> 0]
    /\ regOrder = [tp \in Topics |->
                    IF tp = "ready" THEN [i \in 1..RaceHandlers |-> i] ELSE <<>>]
    /\ ev = Event("init", NoOne, "-", 0)

\* Two caller goroutines that call Emit and EmitSync on one topic, from top
\* level and from callbacks, and the goroutines Emit spawns; nobody registers.
NextEmitRace ==
    \/ Dispatches({"t1", "t2"}, {"ready"}, BOOLEAN, RaceEmits)
    \/ Steps({"t1", "t2"})
    \/ StepsSync({"t1", "t2"})
    \/ StepsAsync({"t1", "t2"}, {"w1"})
    \/ Handlers({"t1", "t2", "w1"})

SpecEmitRace == InitLoaded /\ [][NextEmitRace]_vars

\* Two caller goroutines that call On, Once, Emit and EmitSync on one topic.
\* addHandler's append and grabFuncs race on handlers.funcs: either's store
\* may overwrite the other's, or grabFuncs panics.
NextRace ==
    \/ Calls({"t1", "t2"}, {"ready"}, BOOLEAN, RaceHandlers, RaceEmits)
    \/ Steps({"t1", "t2"})
    \/ \E t \in {"t1", "t2"} : grabFuncsPanic(t)
    \/ StepsSync({"t1", "t2"})
    \/ StepsAsync({"t1", "t2"}, {"w1"})
    \/ Handlers({"t1", "t2", "w1"})

SpecRace == Init /\ [][NextRace]_vars

\* One caller goroutine that calls On, Once and Emit from top level, and the
\* goroutines Emit spawns, which run the callbacks.  The caller goroutine is
\* runnable in every step of callHandlers and goes on running; a callback
\* may block for ever, and a spawned goroutine may never be started.
NextAsync ==
    \/ Calls({"t1"}, {"ready"}, {FALSE}, MaxHandlers, MaxEmits)
    \/ Steps({"t1"})
    \/ StepsAsync({"t1"}, {"w1"})
    \/ Handlers({"w1"})

CallerRuns ==
    /\ WF_vars(callHandlersGrab("t1"))
    /\ WF_vars(callFuncsAsync("t1"))

SpecAsync == Init /\ [][NextAsync]_vars /\ CallerRuns

\* Two caller goroutines that call On and Once on two topics; nobody dispatches.
NextRegister ==
    Registrations({"t1", "t2"}, Topics, RegHandlers)

SpecRegister == Init /\ [][NextRegister]_vars

\* The emitter of src/events/emitter.go: a caller goroutine and the
\* goroutines Emit spawns, whose callbacks call the emitter again.
NextLegacy ==
    \/ \E t \in {"t1", "w1"}, topic \in Topics, h \in NewHandlers(LegacyHandlers) :
          On(t, topic, h)
    \/ \E t \in {"t1", "w1"}, topic \in Topics, h \in NewHandlers(LegacyHandlers) :
          OnPanic(t, topic, h)
    \/ \E t \in {"t1", "w1"}, topic \in Topics, args \in NewArgs(LegacyEmits) :
          Emit(t, topic, args)
    \/ \E t \in {"t1", "w1"}, topic \in Topics, args \in NewArgs(LegacyEmits) :
          EmitPanic(t, topic, args)
    \/ \E w \in {"w1"}, g \in BagToSet(pend) : goCall(w, g)
    \/ Handlers({"w1"})

SpecLegacy == Init /\ [][NextLegacy]_vars

\* ------------------------------------------------------------ properties
InSeq(x, s) == \E i \in 1..Len(s) : s[i] = x

\* C6: a registration that fails (the handler is no func, or its parameter
\* count or a parameter's kind differs from the topic's) changes neither the
\* set of topics nor any topic's parameter types or handler list, invokes
\* and schedules nothing, and leaves e.mu unlocked.
FailedRegistrationChangesNothing ==
    [][ev'.op = "addPanic" =>
          /\ listeners' = listeners
          /\ emu' = NoOne
          /\ hmu' = hmu
          /\ <<invoked', pend', regOrder'>> = <<invoked, pend, regOrder>>]_vars

\* C6 happens: a registration has just failed on a topic that has handlers.
FailedRegistrationSeen ==
    /\ ev.op = "addPanic"
    /\ listeners[ev.topic].exists
    /\ listeners[ev.topic].funcs # <<>>

\* C7: a dispatch that fails the check of its arguments invokes no handler,
\* schedules none, and removes no entry from the topic's handler list.
FailedDispatchFiresNothing ==
    [][ev'.op = "emitPanic" =>
          /\ listeners' = listeners
          /\ invoked' = invoked
          /\ pend' = pend
          /\ grabs' = grabs]_vars

\* C7 happens: a dispatch has just failed on a topic that has a once entry.
FailedDispatchSeen ==
    /\ ev.op = "emitPanic"
    /\ \E i \in 1..Len(listeners[ev.topic].funcs) : listeners[ev.topic].funcs[i].once

\* C9: a dispatch on a topic that has no entry returns normally, invokes and
\* schedules nothing, creates no entry, changes nothing of the emitter and
\* leaves e.mu unlocked.
UnregisteredTopicIsNoOp ==
    [][ev'.op = "noListeners" =>
          /\ listeners' = listeners
          /\ ~listeners'[ev'.topic].exists
          /\ emu' = NoOne
          /\ hmu' = hmu
          /\ stack' = stack
          /\ <<invoked', pend', grabs'>> = <<invoked, pend, grabs>>]_vars

\* C9 happens: a dispatch on a topic without entry has just returned.
UnregisteredTopicSeen ==
    /\ ev.op = "noListeners"
    /\ ~listeners[ev.topic].exists

\* A handler waits to be fired: a dispatch has it among the funcs it has
\* still to call, or a goroutine spawned for it has not started.
WaitsToFire(id) ==
    \/ \E g \in BagToSet(pend) : g.f = id
    \/ \E t \in Threads : \E i \in 1..Len(stack[t]) :
          /\ stack[t][i].kind = "call"
          /\ stack[t][i].pc = "fire"
          /\ \E j \in stack[t][i].idx..Len(stack[t][i].funcs) : stack[t][i].funcs[j] = id

\* C1: with one caller, a handler registered by Once is invoked by the
\* dispatch that takes it from the list, once and never again, and is absent
\* from the list from then on; the handlers registered by On stay in the list.
OnceFiresExactlyOnce ==
    \A tp \in Topics : \A i \in 1..Len(regOrder[tp]) :
        LET id == regOrder[tp][i]
            listed == InSeq(id, ListIds(listeners[tp].funcs)) IN
        IF id \in onceIds
        THEN /\ invoked[id] <= 1
             /\ grabs[id] <= 1
             /\ (grabs[id] = 1) = ~listed
             /\ (~listed /\ ~WaitsToFire(id)) => invoked[id] = 1
        ELSE listed

\* C4: while a callback's code runs (it is the innermost frame of its
\* goroutine), the goroutine has locked neither e.mu nor the Handlers.mu of
\* the topic the callback was fired for.
CallbackRunsUnlocked ==
    \A t \in Threads :
        (stack[t] # <<>> /\ Top(t).kind = "cb") =>
            /\ emu # t
            /\ hmu[Top(t).topic] # t

\* The goroutine that locked the topic's Handlers.mu is inside grabFuncs for
\* that topic, and unlocks next.
WillUnlock(tp) ==
    /\ hmu[tp] \in Threads
    /\ AtCall(hmu[tp], "grabbed")
    /\ Top(hmu[tp]).topic = tp

\* C5: a call made by a callback never waits for a lock that nothing will
\* unlock: when it waits for a topic's Handlers.mu, the goroutine that
\* locked it is about to unlock it.
ReentrantCallNeverStuck ==
    \A t \in Threads :
        (AtCall(t, "lockH") /\ CbCount(stack[t]) >= 1 /\ hmu[Top(t).topic] # NoOne)
            => WillUnlock(Top(t).topic)

\* Every handler of the topic was registered by Once, and none is left.
Emptied(tp) ==
    /\ listeners[tp].exists
    /\ listeners[tp].funcs = <<>>
    /\ regOrder[tp] # <<>>
    /\ \A i \in 1..Len(regOrder[tp]) : regOrder[tp][i] \in onceIds

\* C10: a dispatch on a topic whose handlers were all registered by Once and
\* have all been taken from the list never fails, whatever its arguments.
EmptiedTopicNeverFails ==
    ev.op = "emitPanic" => ~Emptied(ev.topic)

\* The handlers ids are in the order in which the topic's handlers were appended.
InRegOrder(ids, tp) ==
    ids = SelectSeq(regOrder[tp], LAMBDA id : InSeq(id, ids))

\* C8: EmitSync calls the handlers in the order in which they were
\* registered: the calls a dispatch has made are, in order, the first of its
\* funcs, its funcs are in registration order, and so is what stays in the
\* topic's list.
RegistrationOrderIsFiringOrder ==
    /\ \A tp \in Topics : InRegOrder(ListIds(listeners[tp].funcs), tp)
    /\ \A t \in Threads : \A i \in 1..Len(stack[t]) :
          LET fr == stack[t][i] IN
          (fr.kind = "call" /\ fr.pc = "fire" /\ fr.flag) =>
              /\ InRegOrder(fr.funcs, fr.topic)
              /\ Len(fr.fired) = fr.idx - 1
              /\ fr.fired = SubSeq(fr.funcs, 1, Len(fr.fired))

\* C8 happens: an EmitSync has called three handlers, a once entry among
\* them is gone from the list, and two handlers stay.
FiredInOrderSeen ==
    \E t \in Threads :
        /\ AtCall(t, "fire")
        /\ Len(Top(t).fired) = 3
        /\ Len(listeners[Top(t).topic].funcs) = 2

\* C2: of the dispatches that race on a topic, exactly one gets a given once
\* handler from grabFuncs, and the handler is invoked at most once.
OnceCollectedByOneDispatch ==
    \A tp \in Topics : \A i \in 1..Len(regOrder[tp]) :
        LET id == regOrder[tp][i] IN
        id \in onceIds =>
            /\ grabs[id] <= 1
            /\ invoked[id] <= grabs[id]
            /\ (grabs[id] = 1) = ~InSeq(id, ListIds(listeners[tp].funcs))

\* C2 happens: two dispatches on the topic have both passed grabFuncs and
\* are firing, and a once handler was collected.
RacingDispatchesSeen ==
    /\ AtCall("t1", "fire")
    /\ AtCall("t2", "fire")
    /\ \E id \in onceIds : grabs[id] = 1

\* C3: a handler whose On call has returned is in its topic's list, whatever
\* dispatches ran meanwhile.
NoLostRegistration ==
    \A tp \in Topics : \A i \in 1..Len(regOrder[tp]) :
        regOrder[tp][i] \notin onceIds =>
            InSeq(regOrder[tp][i], ListIds(listeners[tp].funcs))

\* The kinds of a parameter list: what addHandler and callHandlers compare.
KindSeq(in) == [i \in 1..Len(in) |-> Kind(in[i])]

\* C11: a topic that has had a handler appended keeps its entry, the entry's
\* parameter types stay those of the first handler registered, and every
\* handler registered later has the same parameter kinds, whether or not
\* the topic's list has been emptied meanwhile.
SignatureIsPermanent ==
    \A tp \in Topics :
        regOrder[tp] # <<>> =>
            /\ listeners[tp].exists
            /\ listeners[tp].in = ftype[regOrder[tp][1]]
            /\ \A i \in 1..Len(regOrder[tp]) :
                  KindSeq(ftype[regOrder[tp][i]]) = KindSeq(listeners[tp].in)

\* C11 happens: a registration has just failed on a topic whose handlers,
\* all registered by Once, have all been taken from the list.
EmptiedTopicRejectsSeen ==
    /\ ev.op = "addPanic"
    /\ Emptied(ev.topic)

\* C12: an Emit whose arguments passed the checks returns to its caller,
\* whether or not any goroutine it spawns ever starts and whether or not
\* any callback ever returns.
EmitReturnsWithoutWaiting ==
    (AtCall("t1", "grabbed") /\ ~Top("t1").flag) ~> (stack["t1"] = <<>>)

\* C12 happens: Emit has just returned to its caller while the callbacks it
\* scheduled have not started and a callback scheduled before has not returned.
EmitReturnedHandlerBlockedSeen ==
    /\ ev.op = "emitDone"
    /\ ev.t = "t1"
    /\ stack["t1"] = <<>>
    /\ stack["w1"] # <<>>
    /\ pend # EmptyBag

\* The frame of the EmitSync that called the callback or func on top of t's stack.
SyncCaller(t) == stack[t][Len(stack[t]) - 1]
Last(s) == s[Len(s)]

\* C13: EmitSync calls its funcs one at a time on the goroutine that called
\* it: it calls a func only when the func it called before has returned
\* (its own frame is the innermost one again), the callback runs on the
\* caller's stack right above EmitSync's frame, and EmitSync returns only
\* when it has called every func it collected and the last has returned.
SyncDispatchWaitsForEach ==
    [][/\ (ev'.op = "invoke" /\ stack[ev'.t] # <<>>) =>
             LET t == ev'.t
                 fr == Top(t) IN
             /\ fr.kind = "call" /\ fr.flag
             /\ ev'.f = fr.funcs[Len(fr.fired) + 1]
             /\ Len(stack'[t]) = Len(stack[t]) + 1
             /\ stack'[t][Len(stack'[t])] = CbFrame(fr.topic, ev'.f)
             /\ \A u \in Threads \ {t} : stack'[u] = stack[u]
             /\ pend' = pend
       /\ ev'.op = "emitSyncDone" =>
             LET t == ev'.t
                 fr == Top(t) IN
             /\ fr.kind = "call" /\ fr.flag
             /\ fr.fired = fr.funcs
             /\ stack'[t] = Pop(stack[t])]_vars

\* C13 happens: the only EmitSync made so far has just returned, and two
\* handlers or more were invoked.
SyncDispatchDoneSeen ==
    /\ ev.op = "emitSyncDone"
    /\ emits = 1
    /\ stack["t1"] = <<>>
    /\ Cardinality({id \in 1..Len(invoked) : invoked[id] = 1}) >= 2

\* C14: when a func called by EmitSync panics (in the callback, or in
\* reflect's Call), the panic leaves callFuncsSync and callHandlers: their
\* frame is gone from the stack with everything above it, so the funcs
\* after it are not called; nothing is invoked or scheduled by the panic,
\* and the funcs before it were called once each, in order.
SyncDispatchFailsFast ==
    [][((ev'.op = "handlerPanic" /\ Len(stack[ev'.t]) >= 2)
            \/ (ev'.op = "callPanic" /\ stack[ev'.t] # <<>>)) =>
          LET t == ev'.t
              fr == IF ev'.op = "callPanic" THEN Top(t) ELSE SyncCaller(t)
              below == IF ev'.op = "callPanic" THEN Len(stack[t]) - 1 ELSE Len(stack[t]) - 2 IN
          /\ fr.kind = "call" /\ fr.flag
          /\ Len(stack'[t]) <= below
          /\ stack'[t] = SubSeq(stack[t], 1, Len(stack'[t]))
          /\ invoked' = invoked
          /\ pend' = pend
          /\ fr.fired = SubSeq(fr.funcs, 1, Len(fr.fired))
          /\ ev'.f = IF ev'.op = "callPanic" THEN fr.funcs[Len(fr.fired) + 1] ELSE Last(fr.fired)]_vars

\* C14 happens: in the only EmitSync made so far, which collected three
\* handlers, the second has just panicked; the first was invoked once, the
\* third not at all, and the caller has recovered.
SecondOfThreeFailedSeen ==
    /\ ev.op = "handlerPanic"
    /\ ev.f = 2
    /\ emits = 1
    /\ stack["t1"] = <<>>
    /\ grabs = <<1, 1, 1>>
    /\ invoked = <<1, 1, 0>>

\* The handlers whose addHandler call holds e.mu and has not appended yet.
Appending(tp) ==
    UNION {{stack[t][i].f : i \in {j \in 1..Len(stack[t]) :
                                      stack[t][j].kind = "add" /\ stack[t][j].topic = tp}} :
           t \in Threads}
Registered(tp) == {regOrder[tp][i] : i \in 1..Len(regOrder[tp])} \cup Appending(tp)
Min(S) == CHOOSE x \in S : \A y \in S : x <= y

\* C15: with On and Once called by several goroutines and no dispatch, each
\* topic's list holds the handlers of the calls that returned, once each,
\* in the order in which the calls locked e.mu (the order of the handler
\* ids, which are given under the lock), with the once flag of the call; a
\* handler is in the list of one topic only; at most one call is between
\* its lock and its append; and the topic's parameter types are those of
\* the call that locked e.mu first for the topic.
ConcurrentRegistrationIsSafe ==
    /\ \A tp \in Topics :
          LET l == listeners[tp].funcs IN
          /\ ListIds(l) = regOrder[tp]
          /\ \A i, j \in 1..Len(l) : i < j => l[i].f < l[j].f
          /\ \A i \in 1..Len(l) : l[i].once = (l[i].f \in onceIds)
          /\ listeners[tp].exists = (Registered(tp) # {})
          /\ Registered(tp) # {} => listeners[tp].in = ftype[Min(Registered(tp))]
    /\ \A id \in 1..(nextId - 1) :
          Cardinality({tp \in Topics : id \in Registered(tp)}) = 1
    /\ Cardinality(UNION {Appending(tp) : tp \in Topics}) <= 1
    /\ (UNION {Appending(tp) : tp \in Topics} # {}) = (emu # NoOne)

\* C15 happens: both topics have a handler, and a call of goroutine t2
\* holds e.mu and is about to append a second handler to one of them.
ConcurrentRegistrationSeen ==
    /\ ev.op = "addBegin"
    /\ ev.t = "t2"
    /\ Len(listeners[ev.topic].funcs) = 1
    /\ \E tp \in Topics \ {ev.topic} : Len(listeners[tp].funcs) = 1

\* C16: in the emitter of src/events/emitter.go, an Emit on a topic that has
\* no handlers returns normally: it never ends in a panic.
LegacyEmitWithoutHandlersReturns ==
    ~(ev.op = "EmitPanic" /\ ~listeners[ev.topic].exists)

\* C17: with registrations racing with dispatches, a once entry that a
\* dispatch has collected is not in the topic's list again, is collected by
\* no second dispatch, and its handler is invoked at most once.
CollectedOnceNeverReappears ==
    \A tp \in Topics : \A id \in onceIds :
        /\ grabs[id] >= 1 => ~InSeq(id, ListIds(listeners[tp].funcs))
        /\ grabs[id] <= 1
        /\ invoked[id] <= 1

\* C18: a once entry that a dispatch has removed from the list is invoked
\* by that dispatch: when no dispatch has it left to call and no goroutine
\* spawned for it waits to start, it has been invoked.
RemovedOnceWasInvoked ==
    \A id \in onceIds :
        (grabs[id] >= 1 /\ ~WaitsToFire(id)) => invoked[id] >= 1

\* C19: after a dispatch has failed the check of its arguments, the topic's
\* Handlers.mu is unlocked.
FailedDispatchUnlocksTopic ==
    ev.op = "emitPanic" => hmu[ev.topic] = NoOne

\* C20: a handler whose registration has returned and that no dispatch has
\* collected yet is in its topic's list, so that the next dispatch that
\* passes the checks collects it; and a dispatch calls only handlers that
\* were registered when it collected.
RegisteredAfterSnapshotFiresNext ==
    /\ \A tp \in Topics : \A i \in 1..Len(regOrder[tp]) :
          grabs[regOrder[tp][i]] = 0 =>
              InSeq(regOrder[tp][i], ListIds(listeners[tp].funcs))
    /\ \A t \in Threads : \A i \in 1..Len(stack[t]) :
          (stack[t][i].kind = "call" /\ stack[t][i].pc = "fire") =>
              \A j \in 1..Len(stack[t][i].funcs) :
                  InSeq(stack[t][i].funcs[j], regOrder[stack[t][i].topic])

====
